---- MODULE Spec2Model ----
(***************************************************************************)
(* astro-global-state: useGlobal over a shared @tanstack/react-query       *)
(* QueryClient.  The model keeps the singleton registry, the query cache   *)
(* of every QueryClient, and for every component the result of its last    *)
(* call of useGlobal (the closure its handlers run with).                  *)
(*                                                                         *)
(* Everything runs on the one render/event thread, so every operation is   *)
(* one atomic step.  A render is taken together with the effect that       *)
(* follows it (the observer adopting the options of the render).  The      *)
(* library's garbage collection of unobserved queries is left out.         *)
(***************************************************************************)
EXTENDS Naturals, Sequences, FiniteSets, TLC

(* ------------------------------------------------------------------ *)
(* Values                                                               *)
(* ------------------------------------------------------------------ *)

\* JavaScript's undefined and null are different values.
Undef == "undefined"
Null == "null"

\* The values of T | null the callers store (T is the one value "light").
Literals == {Null, "light"}
Data == Literals \cup {Undef}

\* What a call returns besides a cache value.
AccessorObject == "accessor"
Thrown == "throws"
Void == "void"

GLOBAL_KEY == "__GLOBAL_STATE__"

\* The components of the page: two islands exported through withReactQuery
\* and one component rendered outside any provider.
Components == {"c1", "c2", "c3"}

\* The most literal setValue calls followed within one tick.
MaxTickWrites == 2

(* ------------------------------------------------------------------ *)
(* Keys (StateKey = string | string[], and the omitted key)            *)
(* ------------------------------------------------------------------ *)

NoKeyArg == [kind |-> "none", parts |-> <<>>]
StrKey(s) == [kind |-> "string", parts |-> <<s>>]
ArrKey(p) == [kind |-> "array", parts |-> p]

\* The key arguments the components of the model pass.
KeyArgs == {StrKey(""), StrKey("a.b"), ArrKey(<<>>), ArrKey(<<"a", "b">>)}

\* Array.prototype.join(".")
RECURSIVE Join(_)
Join(parts) ==
  IF parts = <<>> THEN ""
  ELSE IF Len(parts) = 1 THEN parts[1]
  ELSE parts[1] \o "." \o Join(Tail(parts))

\* !key : an omitted key and the empty string are falsy, every array is truthy.
Falsy(key) ==
  \/ key.kind = "none"
  \/ key.kind = "string" /\ key.parts[1] = ""

\* [GLOBAL_KEY, Array.isArray(key) ? key.join(".") : key]
TheKey(key) ==
  <<GLOBAL_KEY, IF key.kind = "array" THEN Join(key.parts) ELSE key.parts[1]>>

QueryKeys == {TheKey(k) : k \in KeyArgs}
NoQueryKey == <<>>

(* ------------------------------------------------------------------ *)
(* Arguments                                                            *)
(* ------------------------------------------------------------------ *)

\* initialData: omitted, a value, or a zero-argument initializer.
NoInitial == [fn |-> FALSE, v |-> Undef]
InitialArgs ==
  {NoInitial, [fn |-> FALSE, v |-> "light"], [fn |-> TRUE, v |-> "light"]}

\* initialData(): the value the initializer returns.
CallInitializer(initialData) == initialData.v

\* typeof initialData === "function" ? initialData() : initialData
TheInitialData(initialData) ==
  IF initialData.fn THEN CallInitializer(initialData) ELSE initialData.v

\* React.SetStateAction: a value, or a function of the previous value.
\* The updater of the model is  prev => prev === "light" ? null : "light".
Toggle(prev) == IF prev = "light" THEN Null ELSE "light"
SetStateActions ==
  {[fn |-> FALSE, v |-> v] : v \in Literals} \cup {[fn |-> TRUE, v |-> "toggle"]}

(* ------------------------------------------------------------------ *)
(* The query cache of one QueryClient                                   *)
(* ------------------------------------------------------------------ *)

NoQuery == [present |-> FALSE, data |-> Undef]
Query(d) == [present |-> TRUE, data |-> d]
EmptyCache == [qk \in QueryKeys |-> NoQuery]

\* queryClient.getQueryData(theKey)
GetQueryData(cache, qk) == cache[qk].data

\* A setQueryData that writes only where the query holds no data yet.
SetQueryDataIfEmpty(cache, qk, val) ==
  IF val = Undef \/ cache[qk].data # Undef THEN cache
  ELSE [cache EXCEPT ![qk] = Query(val)]

\* queryClient.setQueryData(theKey, val): undefined is no cache value and
\* leaves the cache as it is; otherwise the query is built if absent.
SetQueryData(cache, qk, val) ==
  IF val = Undef THEN cache ELSE [cache EXCEPT ![qk] = Query(val)]

\* A removeQueries that leaves the query in the cache.
RemoveQueriesKeeps(cache, qk) == cache

\* A removeQueries whose filter matches every query of the cache.
RemoveQueriesAll(cache, qk) == EmptyCache

\* queryClient.removeQueries({ queryKey: theKey })
RemoveQueries(cache, qk) == [cache EXCEPT ![qk] = NoQuery]

\* enabled: false, the option every observer useGlobal creates is built with.
Enabled == FALSE

\* An invalidateQueries that refetches the query whatever its observers'
\* enabled option says: the result of queryFn replaces the data.
InvalidateQueriesRefetches(cache, qk, queryFnData) ==
  IF cache[qk].present /\ queryFnData # Undef
    THEN [cache EXCEPT ![qk].data = queryFnData]
  ELSE cache

\* queryClient.invalidateQueries({ queryKey: theKey }): the query is marked
\* invalidated and refetched only if it is active, that is if one of its
\* observers is enabled; a refetch stores what queryFn returns
\* (queryFnData). The invalidation mark itself is read by nothing in this
\* code (staleTime plays no part for a disabled observer) and is not kept.
InvalidateQueries(cache, qk, queryFnData) ==
  IF Enabled /\ cache[qk].present /\ queryFnData # Undef
    THEN [cache EXCEPT ![qk].data = queryFnData]
  ELSE cache

\* A useQuery whose initialData replaces the data of the query at every call.
UseQueryReseeds(cache, qk, initialData) ==
  IF ~cache[qk].present \/ initialData # Undef
    THEN [cache EXCEPT ![qk] = Query(initialData)]
  ELSE cache

\* A useQuery whose initialData stays with the caller: the query is built
\* without data.
UseQueryKeepsInitialData(cache, qk, initialData) ==
  IF ~cache[qk].present THEN [cache EXCEPT ![qk] = Query(Undef)] ELSE cache

\* useQuery({ queryKey, enabled: false, initialData, staleTime: Infinity }):
\* the query is built with initialData when absent; a query that holds no
\* data takes the initialData of the observer's options; a query with data
\* keeps it.
UseQuery(cache, qk, initialData) ==
  IF ~cache[qk].present THEN [cache EXCEPT ![qk] = Query(initialData)]
  ELSE IF cache[qk].data = Undef /\ initialData # Undef
    THEN [cache EXCEPT ![qk].data = initialData]
  ELSE cache

\* A get that returns the data as found, without ?? null.
CoalesceNothing(d) == d

\* data ?? null
Coalesce(d) == IF d = Undef \/ d = Null THEN Null ELSE d

(* ------------------------------------------------------------------ *)
(* The singleton registry (react-query-client)                          *)
(* ------------------------------------------------------------------ *)

\* globalThis.__astroQueryClient is undefined until a QueryClient is stored.
NoClient == 0
ClientIds == 1..Cardinality(Components)

\* A registry module that constructs a QueryClient at every evaluation.
QueryClientModuleAlwaysNew(slot, fresh) ==
  [export |-> fresh, slot |-> fresh, built |-> 1]

\* globalThis.__astroQueryClient || (globalThis.__astroQueryClient = new QueryClient())
\* slot is the global before the module is evaluated, fresh the QueryClient
\* that new QueryClient() would construct.
QueryClientModule(slot, fresh) ==
  IF slot # NoClient
    THEN [export |-> slot, slot |-> slot, built |-> 0]
    ELSE [export |-> fresh, slot |-> fresh, built |-> 1]

\* Which components are exported through withReactQuery.
WithReactQuery == {"c1", "c2"}

(* ------------------------------------------------------------------ *)
(* State                                                                *)
(* ------------------------------------------------------------------ *)

VARIABLES
  astroQueryClient,  \* globalThis.__astroQueryClient
  constructed,       \* how many QueryClients new QueryClient() has constructed
  caches,            \* the query cache of every QueryClient
  comp,              \* per component: its import and the constants of its last render
  origin,            \* per key: the operation that last decided the entry
  lastOp             \* the operation just performed and what it returned

vars == <<astroQueryClient, constructed, caches, comp, origin, lastOp>>

NoOrigin == [how |-> "none", val |-> Undef]

Unloaded ==
  [phase |-> "unloaded", imported |-> NoClient, qk |-> NoQueryKey,
   init |-> Undef, data |-> Undef, attached |-> FALSE]

\* The record of an operation: op by component c, called with key (useGlobal
\* and get), on the entry qk, of which was is the origin before it;
\* ret is what the call returned, notified the components it scheduled for
\* a re-render, run the literal setValue calls on qk that followed one
\* another up to this one.
Op(op, c, key, qk, was, ret, notified, run) ==
  [op |-> op, c |-> c, key |-> key, qk |-> qk, was |-> was, ret |-> ret,
   notified |-> notified, run |-> run]

Init ==
  /\ astroQueryClient = NoClient
  /\ constructed = 0
  /\ caches = [cl \in ClientIds |-> EmptyCache]
  /\ comp = [c \in Components |-> Unloaded]
  /\ origin = [qk \in QueryKeys |-> NoOrigin]
  /\ lastOp = Op("init", "nobody", NoKeyArg, NoQueryKey, NoOrigin, Void, {}, 0)

(* ------------------------------------------------------------------ *)
(* Resolving the QueryClient                                            *)
(* ------------------------------------------------------------------ *)

\* <ReactQueryProvider>: the context of a wrapped subtree holds the
\* singleton the island imported.
ReactQueryProvider(c) == comp[c].imported

\* useQueryClient(): the client of the enclosing provider; NoClient stands
\* for the error it throws where there is none.
UseQueryClient(c) ==
  IF c \in WithReactQuery THEN ReactQueryProvider(c) ELSE NoClient

\* try { queryClient = useQueryClient() } catch { queryClient = globalQueryClient }
ResolveClient(c) ==
  IF UseQueryClient(c) # NoClient THEN UseQueryClient(c) ELSE comp[c].imported

\* The components whose observer is subscribed to the query at qk of cl.
Observers(cl, qk) ==
  {d \in Components :
     /\ comp[d].phase = "hook"
     /\ comp[d].attached
     /\ UseQueryClient(d) = cl
     /\ comp[d].qk = qk}

\* The observers of a query whose data changed schedule a re-render of
\* their components: data is the one property of the result they track.
Notify(watchers, changed) == IF changed THEN watchers ELSE {}

(* ------------------------------------------------------------------ *)
(* Operations                                                           *)
(* ------------------------------------------------------------------ *)

\* An island evaluates the registry module (the import of useGlobal.ts).
EvaluateRegistry(c) ==
  /\ comp[c].phase = "unloaded"
  /\ LET m == QueryClientModule(astroQueryClient, constructed + 1)
     IN /\ astroQueryClient' = m.slot
        /\ constructed' = constructed + m.built
        /\ comp' = [comp EXCEPT ![c].phase = "idle", ![c].imported = m.export]
  /\ lastOp' = Op("evaluate", c, NoKeyArg, NoQueryKey, NoOrigin, Void, {}, 0)
  /\ UNCHANGED <<caches, origin>>

\* Hook mode of useGlobal in component c: theKey is qk, the client of
\* useQuery is cl.  The observer of c subscribes to the query now at qk;
\* the observers already there re-render if the call gave the query data.
HookMode(c, cl, key, qk, theInitialData, op) ==
  LET before == caches[cl]
      after == UseQuery(before, qk, theInitialData)
      data == GetQueryData(after, qk)
      watchers == IF before[qk].present THEN Observers(cl, qk) ELSE {}
  IN /\ caches' = [caches EXCEPT ![cl] = after]
     /\ comp' = [comp EXCEPT ![c] =
          [@ EXCEPT !.phase = "hook", !.qk = qk, !.init = theInitialData,
                    !.data = data, !.attached = TRUE]]
     /\ origin' =
          IF before[qk].data = Undef /\ data # Undef
            THEN [origin EXCEPT ![qk] = [how |-> "seed", val |-> data]]
            ELSE origin
     /\ lastOp' = Op(op, c, key, qk, origin[qk], data,
                      Notify(watchers \ {c}, data # before[qk].data), 0)

\* The first render of c: useGlobal(key, initialData).
Mount(c, key, initialData) ==
  /\ comp[c].phase = "idle"
  /\ UNCHANGED <<astroQueryClient, constructed>>
  /\ IF ResolveClient(c) = NoClient
       THEN \* throw new Error("[useGlobal] No QueryClient available. ...")
            /\ comp' = [comp EXCEPT ![c].phase = "error"]
            /\ lastOp' = Op("mount", c, key, NoQueryKey, NoOrigin, Thrown, {}, 0)
            /\ UNCHANGED <<caches, origin>>
     ELSE IF Falsy(key)
       THEN \* return { get }
            /\ comp' = [comp EXCEPT ![c].phase = "accessor"]
            /\ lastOp' = Op("mount", c, key, NoQueryKey, NoOrigin, AccessorObject,
                            {}, 0)
            /\ UNCHANGED <<caches, origin>>
     ELSE IF UseQueryClient(c) = NoClient
       THEN \* useQuery(options) resolves its client with useQueryClient()
            /\ comp' = [comp EXCEPT ![c].phase = "error"]
            /\ lastOp' = Op("mount", c, key, TheKey(key),
                            origin[TheKey(key)], Thrown, {}, 0)
            /\ UNCHANGED <<caches, origin>>
     ELSE HookMode(c, UseQueryClient(c), key, TheKey(key),
                   TheInitialData(initialData), "mount")

\* A later render of a hook-mode component: the same call again, with the
\* same theKey and theInitialData.
Render(c) ==
  /\ comp[c].phase = "hook"
  /\ UNCHANGED <<astroQueryClient, constructed>>
  /\ HookMode(c, UseQueryClient(c), NoKeyArg, comp[c].qk, comp[c].init, "render")

\* The literal setValue calls on qk that followed one another up to now.
Run(qk) == IF lastOp.op = "set" /\ lastOp.qk = qk THEN lastOp.run ELSE 0

\* setData(arg), the closure of the last render of c.
SetValue(c, arg) ==
  /\ comp[c].phase = "hook"
  /\ LET qk == comp[c].qk
         cl == ResolveClient(c)
         before == caches[cl]
         val == IF arg.fn THEN Toggle(comp[c].data) ELSE arg.v
         after == SetQueryData(before, qk, val)
         watchers == IF before[qk].present THEN Observers(cl, qk) ELSE {}
     IN /\ arg.fn \/ Run(qk) < MaxTickWrites
        /\ caches' = [caches EXCEPT ![cl] = after]
        /\ origin' = [origin EXCEPT ![qk] =
                        IF arg.fn THEN [how |-> "update", val |-> Undef]
                        ELSE [how |-> "set", val |-> val]]
        /\ lastOp' = Op(IF arg.fn THEN "update" ELSE "set", c, NoKeyArg, qk,
                        origin[qk], Void,
                        Notify(watchers, after[qk].data # before[qk].data),
                        IF arg.fn THEN 0 ELSE Run(qk) + 1)
  /\ UNCHANGED <<astroQueryClient, constructed, comp>>

\* refresh(); queryFn of the caller's options is () => theInitialData!
Refresh(c) ==
  /\ comp[c].phase = "hook"
  /\ LET qk == comp[c].qk
         cl == ResolveClient(c)
     IN /\ caches' = [caches EXCEPT ![cl] =
                        InvalidateQueries(caches[cl], qk, comp[c].init)]
        /\ lastOp' = Op("refresh", c, NoKeyArg, qk, origin[qk], Void, {}, 0)
  /\ UNCHANGED <<astroQueryClient, constructed, comp, origin>>

\* reset(): the query leaves the cache; the observers that were subscribed
\* to it are told nothing and stay with the removed query.
Reset(c) ==
  /\ comp[c].phase = "hook"
  /\ LET qk == comp[c].qk
         cl == ResolveClient(c)
         watchers == Observers(cl, qk)
     IN /\ caches' = [caches EXCEPT ![cl] = RemoveQueries(caches[cl], qk)]
        /\ comp' = [d \in Components |->
                      IF d \in watchers THEN [comp[d] EXCEPT !.attached = FALSE]
                      ELSE comp[d]]
        /\ origin' = [origin EXCEPT ![qk] = [how |-> "reset", val |-> Undef]]
        /\ lastOp' = Op("reset", c, NoKeyArg, qk, origin[qk], Void, {}, 0)
  /\ UNCHANGED <<astroQueryClient, constructed>>

\* get(key) of the accessor object of c.
Get(c, key) ==
  /\ comp[c].phase = "accessor"
  /\ LET qk == TheKey(key)
         data == GetQueryData(caches[ResolveClient(c)], qk)
     IN lastOp' = Op("get", c, key, qk, origin[qk], Coalesce(data), {}, 0)
  /\ UNCHANGED <<astroQueryClient, constructed, caches, comp, origin>>

Next ==
  \E c \in Components :
    \/ EvaluateRegistry(c)
    \/ \E key \in KeyArgs \cup {NoKeyArg}, initialData \in InitialArgs :
         Mount(c, key, initialData)
    \/ Render(c)
    \/ \E arg \in SetStateActions : SetValue(c, arg)
    \/ Refresh(c)
    \/ Reset(c)
    \/ \E key \in KeyArgs : Get(c, key)

Spec == Init /\ [][Next]_vars

(* ------------------------------------------------------------------ *)
(* Properties                                                           *)
(* ------------------------------------------------------------------ *)

\* The last operation was a call of useGlobal that ran in hook mode and
\* returned its tuple.
HookRead ==
  /\ lastOp.op \in {"mount", "render"}
  /\ lastOp.ret \notin {Thrown, AccessorObject}

\* The last operation read an entry: a hook-mode call or get(key).
Read == HookRead \/ lastOp.op = "get"

\* C1: after setValue(v) with a literal v on key k, every hook-mode read of
\* k and every get(k), by whichever component, returns v for as long as no
\* later setValue or reset on k has happened.
C1_ReadAfterSetValue ==
  (Read /\ origin[lastOp.qk].how = "set") => lastOp.ret = origin[lastOp.qk].val

\* A component whose own initial value is "light" renders after null was
\* written, and reads null.
C1_Witness ==
  /\ HookRead
  /\ lastOp.op = "render"
  /\ origin[lastOp.qk] = [how |-> "set", val |-> Null]
  /\ comp[lastOp.c].init = "light"
  /\ lastOp.ret = Null

\* C2: on a key without an entry (never seeded or written, or reset since),
\* useGlobal(k, i) returns i; and a hook-mode call without an initial value
\* on the entry so seeded returns that same i.
C2_SeedIsShared ==
  /\ (HookRead /\ lastOp.was.how \in {"none", "reset"}
        /\ comp[lastOp.c].init # Undef)
       => lastOp.ret = comp[lastOp.c].init
  /\ (HookRead /\ lastOp.was.how = "seed" /\ comp[lastOp.c].init = Undef)
       => (lastOp.ret = lastOp.was.val /\ lastOp.ret # Undef)

\* A component that passes no initial value mounts on the entry another
\* component seeded with "light", and reads "light".
C2_Witness ==
  /\ HookRead
  /\ lastOp.op = "mount"
  /\ lastOp.was = [how |-> "seed", val |-> "light"]
  /\ comp[lastOp.c].init = Undef
  /\ lastOp.ret = "light"
  /\ \E d \in Components \ {lastOp.c} :
       comp[d].phase = "hook" /\ comp[d].qk = lastOp.qk /\ comp[d].init = "light"


\* The data of the entry lastOp.qk in the cache that component c resolves.
EntryData(c, cs) == GetQueryData(cs[ResolveClient(c)], lastOp.qk)

\* C3: setValue with an updater function f writes f(p), p being the value of
\* the entry immediately before the call, also when the entry was written
\* after the calling component last rendered.
C3_UpdaterGetsLatestValue ==
  [][lastOp'.op = "update" =>
       GetQueryData(caches'[ResolveClient(lastOp'.c)], lastOp'.qk)
         = Toggle(GetQueryData(caches[ResolveClient(lastOp'.c)], lastOp'.qk))]_vars

\* C4: after reset() on key k the next hook-mode read useGlobal(k, i2)
\* returns i2, whichever component performs it.
C4_ReadAfterResetReseeds ==
  (HookRead /\ lastOp.was.how = "reset" /\ comp[lastOp.c].init # Undef)
    => lastOp.ret = comp[lastOp.c].init

\* A component reads its initial value "light" after a reset, while another
\* component of the key still holds the null it rendered before the reset.
C4_Witness ==
  /\ HookRead
  /\ lastOp.was.how = "reset"
  /\ comp[lastOp.c].init = "light"
  /\ lastOp.ret = "light"
  /\ \E d \in Components \ {lastOp.c} :
       /\ comp[d].phase = "hook"
       /\ comp[d].qk = lastOp.qk
       /\ comp[d].data = Null
       /\ ~comp[d].attached

\* C5: a hook-mode call without an initial value on a key without an entry
\* (never seeded or written, or reset since) returns null.
C5_NoInitialReadsNull ==
  (HookRead /\ lastOp.was.how \in {"none", "reset"}
     /\ comp[lastOp.c].init = Undef)
    => lastOp.ret = Null

\* C6: the value one caller wrote under key k is the value every other
\* caller reads under k, be the reader inside a wrapper, inside a sibling
\* wrapper or outside any provider, in hook mode or through get.
C6_OneEntryForAllCallers ==
  (/\ lastOp.op \in {"mount", "render", "get"}
   /\ lastOp.qk # NoQueryKey
   /\ origin[lastOp.qk].how = "set")
    => lastOp.ret = origin[lastOp.qk].val

\* C7: no setValue, refresh or reset schedules a re-render of an accessor-mode
\* component, and every setValue that changes the value of k schedules a
\* re-render of every mounted hook-mode reader of k.
C7_RerenderOnChange ==
  [][/\ \A d \in Components :
          comp[d].phase = "accessor" => d \notin lastOp'.notified
     /\ (/\ lastOp'.op \in {"set", "update"}
         /\ GetQueryData(caches'[ResolveClient(lastOp'.c)], lastOp'.qk)
              # GetQueryData(caches[ResolveClient(lastOp'.c)], lastOp'.qk))
        => \A d \in Components :
             (comp[d].phase = "hook" /\ comp[d].qk = lastOp'.qk)
               => d \in lastOp'.notified]_vars

\* C8: the shared QueryClient is constructed at most once; every evaluation
\* of the registry module exports that instance, which is never replaced.
C8_OneQueryClient ==
  /\ constructed <= 1
  /\ \A c \in Components :
       comp[c].imported # NoClient =>
         (comp[c].imported = astroQueryClient /\ astroQueryClient = 1)

\* All three islands have evaluated the registry module.
C8_Witness ==
  /\ constructed = 1
  /\ \A c \in Components : comp[c].imported = 1

\* C9: a value written under a sequence key is what a hook-mode call with
\* the joined string as its key reads.
C9_JoinedStringReadsSequenceKey ==
  \A a \in KeyArgs :
    (/\ a.kind = "array"
     /\ lastOp.op = "mount"
     /\ lastOp.c \in WithReactQuery
     /\ lastOp.key = StrKey(Join(a.parts))
     /\ origin[TheKey(a)].how = "set")
    => lastOp.ret = origin[TheKey(a)].val

\* C10: of several literal setValue calls on one key that follow one another
\* with no render in between, the entry holds the value of the last.
C10_LastWriteWins ==
  (lastOp.op = "set" /\ lastOp.run >= 2)
    => EntryData(lastOp.c, caches) = origin[lastOp.qk].val

\* Two literal writes in a row: "light", then null, which the entry holds.
C10_Witness ==
  /\ lastOp.op = "set"
  /\ lastOp.run = 2
  /\ lastOp.was = [how |-> "set", val |-> "light"]
  /\ origin[lastOp.qk] = [how |-> "set", val |-> Null]
  /\ EntryData(lastOp.c, caches) = Null

\* C11: the mode of a call depends only on whether a key is supplied: a call
\* with a key (any string, the empty one included, any sequence, the empty
\* one included) does not return the accessor object, and a call without a
\* key returns it.
C11_ModeByKeyPresence ==
  (lastOp.op = "mount" /\ lastOp.c \in WithReactQuery)
    => (lastOp.ret = AccessorObject <=> lastOp.key = NoKeyArg)

C13_RefreshKeepsEntry ==
  [][lastOp'.op = "refresh" =>
       caches'[ResolveClient(lastOp'.c)][lastOp'.qk]
         = caches[ResolveClient(lastOp'.c)][lastOp'.qk]]_vars

\* A component whose own initial value is "light" has refreshed the entry
\* that holds null, and the entry still holds null.
C13_Witness ==
  /\ lastOp.op = "refresh"
  /\ comp[lastOp.c].init = "light"
  /\ caches[ResolveClient(lastOp.c)][lastOp.qk] = Query(Null)

\* C14: setValue, refresh and reset called under key k leave the entry of
\* every other key, its presence and its value, as it was.
C14_OtherKeysUntouched ==
  [][lastOp'.op \in {"set", "update", "refresh", "reset"} =>
       \A cl \in ClientIds, qk \in QueryKeys \ {lastOp'.qk} :
         caches'[cl][qk] = caches[cl][qk]]_vars

\* An entry that was written has been reset while the entry of another key
\* holds "light", and still holds it.
C14_Witness ==
  /\ lastOp.op = "reset"
  /\ lastOp.was.how = "set"
  /\ ~caches[ResolveClient(lastOp.c)][lastOp.qk].present
  /\ \E qk \in QueryKeys \ {lastOp.qk} :
       caches[ResolveClient(lastOp.c)][qk] = Query("light")

\* C15: get(k) of the accessor object is a pure read: it raises nothing,
\* creates no entry and changes none; it returns null when k has no entry
\* and the value the entry holds when it has one.
C15_GetIsPureRead ==
  [][lastOp'.op = "get" =>
       /\ caches' = caches
       /\ lastOp'.ret # Thrown
       /\ lastOp'.ret =
            IF caches[ResolveClient(lastOp'.c)][lastOp'.qk].data = Undef THEN Null
            ELSE caches[ResolveClient(lastOp'.c)][lastOp'.qk].data]_vars

\* get(k) after the entry of k was reset: it returns null and k still has
\* no entry.
C15_Witness ==
  /\ lastOp.op = "get"
  /\ lastOp.was.how = "reset"
  /\ lastOp.ret = Null
  /\ caches[ResolveClient(lastOp.c)][lastOp.qk] = NoQuery

\* C16: once the registry module has been evaluated, a call of useGlobal by
\* a component outside any provider resolves the shared QueryClient and
\* throws nothing.
C16_OutsideProviderSucceeds ==
  (/\ lastOp.op = "mount"
   /\ lastOp.c \notin WithReactQuery
   /\ comp[lastOp.c].imported # NoClient)
    => lastOp.ret # Thrown

====
